---------------------------- MODULE Spec2Model ----------------------------
(***************************************************************************)
(* Model of the dockerized FastAPI service: src/config.py (Settings,       *)
(* get_settings), src/main.py (application start-up, CORS, router          *)
(* registration, root handler) and src/api/{health,hello}.py (handlers).   *)
(*                                                                         *)
(* Text is modelled as a sequence of one-character strings, so that        *)
(* str.split, str.lower, int() and f-string formatting are computed and    *)
(* not assumed.  An optional value (an environment variable that may be    *)
(* unset, a module global that is not yet bound) is a sequence of length   *)
(* 0 or 1.                                                                 *)
(***************************************************************************)
EXTENDS Integers, Sequences, FiniteSets, TLC

VARIABLES
    env,        \* os.environ of the process: variable name -> optional text
    pc,         \* position of the start-up script / lifecycle of the process
    cls,        \* attributes of class Settings, bound when config.py is imported
    cache,      \* lru_cache of get_settings: 0 = empty, else the cached instance id
    nextId,     \* number of Settings instances constructed so far
    settings,   \* main.py global `settings`: 0 = unbound, else an instance id
    routes,     \* app.router.routes, in registration order
    cors,       \* allow_origins handed to CORSMiddleware (optional)
    requests,   \* requests accepted by the server, in order of arrival
    calls,      \* values returned by get_settings(), in call order
    envWrites,  \* number of writes to os.environ after process start
    bootEnv     \* os.environ as it was when the process started (history)

vars == <<env, pc, cls, cache, nextId, settings, routes, cors, requests, calls,
          envWrites, bootEnv>>

----------------------------------------------------------------------------
(* Bounds of the model *)

MaxRequests == 2
MaxCalls == 2
MaxEnvWrites == 1

----------------------------------------------------------------------------
(* Text literals *)

sDevelopment == <<"d","e","v","e","l","o","p","m","e","n","t">>
sProduction == <<"p","r","o","d","u","c","t","i","o","n">>
sFalse == <<"f","a","l","s","e">>
sTrue == <<"t","r","u","e">>
sTrueCap == <<"T","r","u","e">>
sInfo == <<"I","N","F","O">>
sApi == <<"/","a","p","i">>
sV1 == <<"/","v","1">>
sV1NoSlash == <<"v","1">>
sV1Trailing == <<"/","v","1","/">>
sVersion100 == <<"1",".","0",".","0">>
sVersion20 == <<"2",".","0">>
sStar == <<"*">>
sOriginA == <<"h","t","t","p","s",":","/","/","a",".","c","o","m">>
sOriginB == <<"h","t","t","p","s",":","/","/","b",".","c","o","m">>
sOriginsAB == sOriginA \o <<",">> \o sOriginB
sOriginsGap == <<"a",",",",","b">>
sHost == <<"0",".","0",".","0",".","0">>
s8080 == <<"8","0","8","0">>
s9999 == <<"9","9","9","9">>
sAbc == <<"a","b","c">>
s80a == <<"8","0","a">>
sPadded80 == <<" ","8","0">>
sPlus8_0 == <<"+","8","_","0">>
sHelloWorld == <<"H","e","l","l","o",","," ","W","o","r","l","d","!">>
sHelloComma == <<"H","e","l","l","o",","," ">>
sBang == <<"!">>
sHealthy == <<"h","e","a","l","t","h","y">>
sOK == <<"O","K">>
\* "OK " followed by the single code point U+1F680 (rocket)
sOKRocket == <<"O","K"," ","U+1F680">>
sNotFound == <<"N","o","t"," ","F","o","u","n","d">>
sHealthPath == <<"/","h","e","a","l","t","h">>
sHelloPath == <<"/","h","e","l","l","o">>
sHelloNamePath == <<"/","h","e","l","l","o","/","{","n","a","m","e","}">>
sDocs == <<"/","d","o","c","s">>
sRedoc == <<"/","r","e","d","o","c">>
sOpenapi == <<"/","o","p","e","n","a","p","i",".","j","s","o","n">>
sOauth2 == <<"/","d","o","c","s","/","o","a","u","t","h","2","-","r","e","d","i","r","e","c","t">>
sSlash == <<"/">>
sNope == <<"/","n","o","p","e">>
sAl == <<"A","l">>
sTag == <<"<","b",">">>

----------------------------------------------------------------------------
(* Python built-ins used by config.py *)

UpperCase == <<"A","B","C","D","E","F","G","H","I","J","K","L","M",
               "N","O","P","Q","R","S","T","U","V","W","X","Y","Z">>
LowerCase == <<"a","b","c","d","e","f","g","h","i","j","k","l","m",
               "n","o","p","q","r","s","t","u","v","w","x","y","z">>
Digits == <<"0","1","2","3","4","5","6","7","8","9">>
Whitespace == {" ", "\t", "\n", "\r"}

IndexOf(ch, table) ==
    IF \E i \in 1..Len(table) : table[i] = ch
    THEN CHOOSE i \in 1..Len(table) : table[i] = ch
    ELSE 0

\* str.lower()
Lower(s) ==
    [i \in 1..Len(s) |->
        IF IndexOf(s[i], UpperCase) # 0 THEN LowerCase[IndexOf(s[i], UpperCase)] ELSE s[i]]

\* os.getenv(name, default)
Getenv(e, name, default) == IF e[name] = <<>> THEN default ELSE e[name][1]

\* str.split(sep) for a one-character separator: every piece, empty ones included
RECURSIVE SplitFrom(_, _, _)
SplitFrom(s, sep, piece) ==
    IF s = <<>> THEN <<piece>>
    ELSE IF Head(s) = sep THEN <<piece>> \o SplitFrom(Tail(s), sep, <<>>)
    ELSE SplitFrom(Tail(s), sep, Append(piece, Head(s)))

SplitReversed(s, sep) ==
    LET p == SplitFrom(s, sep, <<>>) IN [i \in 1..Len(p) |-> p[Len(p) + 1 - i]]

Split(s, sep) == SplitFrom(s, sep, <<>>)

\* str.strip() of white space, as int() applies it to its argument
RECURSIVE LStrip(_)
LStrip(s) == IF s # <<>> /\ Head(s) \in Whitespace THEN LStrip(Tail(s)) ELSE s

RECURSIVE RStrip(_)
RStrip(s) ==
    IF s # <<>> /\ s[Len(s)] \in Whitespace THEN RStrip(SubSeq(s, 1, Len(s) - 1)) ELSE s

IsDigit(ch) == IndexOf(ch, Digits) # 0

\* digits, with single underscores allowed between digits
DigitsOk(d) ==
    /\ d # <<>>
    /\ \A i \in 1..Len(d) : IsDigit(d[i]) \/ d[i] = "_"
    /\ IsDigit(d[1]) /\ IsDigit(d[Len(d)])
    /\ \A i \in 1..(Len(d) - 1) : ~(d[i] = "_" /\ d[i + 1] = "_")

RECURSIVE DigitsValue(_, _)
DigitsValue(d, acc) ==
    IF d = <<>> THEN acc
    ELSE IF Head(d) = "_" THEN DigitsValue(Tail(d), acc)
    ELSE DigitsValue(Tail(d), 10 * acc + (IndexOf(Head(d), Digits) - 1))

PyIntOrDefault(s) ==
    LET t == RStrip(LStrip(s))
        signed == t # <<>> /\ t[1] \in {"+", "-"}
        d == IF signed THEN Tail(t) ELSE t
    IN  IF DigitsOk(d)
        THEN [ok |-> TRUE, value |-> IF signed /\ t[1] = "-" THEN 0 - DigitsValue(d, 0) ELSE DigitsValue(d, 0)]
        ELSE [ok |-> TRUE, value |-> 8080]

\* int(s): ok = FALSE stands for ValueError
PyInt(s) ==
    LET t == RStrip(LStrip(s))
        signed == t # <<>> /\ t[1] \in {"+", "-"}
        d == IF signed THEN Tail(t) ELSE t
    IN  IF DigitsOk(d)
        THEN [ok |-> TRUE, value |-> IF signed /\ t[1] = "-" THEN 0 - DigitsValue(d, 0) ELSE DigitsValue(d, 0)]
        ELSE [ok |-> FALSE, value |-> 0]

----------------------------------------------------------------------------
(* src/config.py *)

EnvNames == {"ENVIRONMENT", "DEBUG", "LOG_LEVEL", "API_PREFIX", "API_VERSION",
             "CORS_ORIGINS", "HOST", "PORT"}

\* The body of class Settings, evaluated once, when config.py is imported.
Settings(e) ==
    [ENVIRONMENT  |-> Getenv(e, "ENVIRONMENT", sDevelopment),
     DEBUG        |-> Lower(Getenv(e, "DEBUG", sFalse)) = sTrue,
     LOG_LEVEL    |-> Getenv(e, "LOG_LEVEL", sInfo),
     API_PREFIX   |-> Getenv(e, "API_PREFIX", sApi),
     API_VERSION  |-> Getenv(e, "API_VERSION", sVersion100),
     CORS_ORIGINS |-> Split(Getenv(e, "CORS_ORIGINS", sStar), ","),
     HOST         |-> Getenv(e, "HOST", sHost),
     PORT         |-> PyInt(Getenv(e, "PORT", s8080)).value]

\* The class body raises ValueError when int() rejects PORT.
SettingsRaises(e) == ~PyInt(Getenv(e, "PORT", s8080)).ok

get_settings_uncached(c, n) == n + 1

\* @lru_cache get_settings(): the cached instance if there is one, else a new one
get_settings(c, n) == IF c # 0 THEN c ELSE n + 1

\* Attribute lookup on a Settings instance: instances have no attributes of
\* their own, every field is read from the class.
Field(name) == cls[1][name]


----------------------------------------------------------------------------
(* Routing: the router FastAPI() creates in src/main.py, with its defaults *)

\* A path template segment of the form {param}
IsParam(t) == t # <<>> /\ t[1] = "{" /\ t[Len(t)] = "}"

ParamMatchesEmpty(seg) == TRUE

\* A path parameter (default str convertor) matches one or more characters
\* other than "/"
ParamMatches(seg) == seg # <<>>

SegMatches(t, seg) == IF IsParam(t) THEN ParamMatches(seg) ELSE t = seg

\* A route matches when the whole path matches its template
PathMatches(template, path) ==
    LET ts == Split(template, "/")
        ps == Split(path, "/")
    IN  /\ Len(ts) = Len(ps)
        /\ \A i \in 1..Len(ts) : SegMatches(ts[i], ps[i])

\* The value bound to the path parameter of the template
PathParam(template, path) ==
    LET ts == Split(template, "/")
        ps == Split(path, "/")
    IN  IF \E i \in 1..Len(ts) : IsParam(ts[i])
        THEN ps[CHOOSE i \in 1..Len(ts) : IsParam(ts[i])]
        ELSE <<>>

\* Index of the first route, in registration order, that matches; 0 if none
FirstMatch(rs, path) ==
    IF \E i \in 1..Len(rs) : PathMatches(rs[i].path, path)
    THEN CHOOSE i \in 1..Len(rs) :
            /\ PathMatches(rs[i].path, path)
            /\ \A j \in 1..(i - 1) : ~PathMatches(rs[j].path, path)
    ELSE 0

\* str.rstrip("/")
RECURSIVE RStripSlash(_)
RStripSlash(p) ==
    IF p # <<>> /\ p[Len(p)] = "/" THEN RStripSlash(SubSeq(p, 1, Len(p) - 1)) ELSE p

\* redirect_slashes: the path the router tries when no route matches
SlashVariant(path) ==
    IF path # <<>> /\ path[Len(path)] = "/" THEN RStripSlash(path) ELSE path \o sSlash

\* What the router does with GET path: run an endpoint, redirect, or 404
Dispatch(rs, path) ==
    LET i == FirstMatch(rs, path) IN
    IF i # 0
    THEN [endpoint |-> rs[i].endpoint, name |-> PathParam(rs[i].path, path), location |-> <<>>]
    ELSE IF path # sSlash /\ FirstMatch(rs, SlashVariant(path)) # 0
    THEN [endpoint |-> "redirect_slashes", name |-> <<>>, location |-> SlashVariant(path)]
    ELSE [endpoint |-> "not_found", name |-> <<>>, location |-> <<>>]

\* The endpoints that are handlers of this repository
Handlers == {"root", "get_health", "get_hello", "get_hello_name"}

----------------------------------------------------------------------------
(* Handlers: src/api/health.py, src/api/hello.py, src/main.py *)

HealthResponse(status, message) == [status |-> status, message |-> message]

HelloResponse(message) == [message |-> message]

get_health_degrading == HealthResponse(IF Len(requests) > 1 THEN sNotFound ELSE sHealthy, sOK)

get_health == HealthResponse(sHealthy, sOK)

get_hello_lower == HelloResponse(Lower(sHelloWorld))

get_hello == HelloResponse(sHelloWorld)

\* drops the characters "<" and ">" from the name
get_hello_name_sanitized(name) ==
    HelloResponse(sHelloComma \o SelectSeq(name, LAMBDA ch : ch \notin {"<", ">"}) \o sBang)

\* greets the name of the latest request (a name kept in a module global)
get_hello_name_shared(name) ==
    HelloResponse(sHelloComma \o requests[Len(requests)].name \o sBang)

get_hello_name(name) == HelloResponse(sHelloComma \o name \o sBang)

root_defaults ==
    [message |-> sOKRocket, version |-> sVersion100, environment |-> sDevelopment]

root ==
    [message |-> sOKRocket, version |-> Field("API_VERSION"), environment |-> Field("ENVIRONMENT")]

\* The response the server sends for a dispatched request
Response(d) ==
    CASE d.endpoint = "root" -> [code |-> 200, location |-> <<>>, body |-> root]
      [] d.endpoint = "get_health" -> [code |-> 200, location |-> <<>>, body |-> get_health]
      [] d.endpoint = "get_hello" -> [code |-> 200, location |-> <<>>, body |-> get_hello]
      [] d.endpoint = "get_hello_name" ->
            [code |-> 200, location |-> <<>>, body |-> get_hello_name(d.name)]
      [] d.endpoint = "redirect_slashes" ->
            [code |-> 307, location |-> d.location, body |-> [empty |-> TRUE]]
      [] d.endpoint = "not_found" ->
            [code |-> 404, location |-> <<>>, body |-> [detail |-> sNotFound]]
      [] OTHER -> [code |-> 200, location |-> <<>>, body |-> [document |-> d.endpoint]]

----------------------------------------------------------------------------
(* Start-up: the module body of src/main.py *)

StartsWithSlash(p) == p # <<>> /\ p[1] = "/"
EndsWithSlash(p) == p # <<>> /\ p[Len(p)] = "/"

\* include_router accepts an empty prefix, or one that starts with "/" and
\* does not end with "/"
PrefixAccepted(p) == p = <<>> \/ (StartsWithSlash(p) /\ ~EndsWithSlash(p))

Route(path, endpoint) == [path |-> path, endpoint |-> endpoint]

\* The routes FastAPI() registers itself: schema and documentation pages
DocRoutes(prefix) ==
    << Route(sOpenapi, "openapi"),
       Route(prefix \o sDocs, "swagger_ui_html"),
       Route(sOauth2, "swagger_ui_redirect"),
       Route(prefix \o sRedoc, "redoc_html") >>

HealthRoutes(prefix) == << Route(prefix \o sHealthPath, "get_health") >>

HelloRoutes(prefix) ==
    << Route(prefix \o sHelloPath, "get_hello"),
       Route(prefix \o sHelloNamePath, "get_hello_name") >>

RootRoutes == << Route(sSlash, "root") >>

AcceptingEarly(p) == p \in {"include_hello", "root_route", "run", "serving"}

\* The server accepts connections once uvicorn.run is reached, the last
\* statement of main.py
Accepting(p) == p = "serving"

Initializing(p) ==
    p \in {"import_config", "get_settings", "debug", "create_app", "add_middleware",
           "include_health", "include_hello", "root_route", "run"}

\* from .config import get_settings: runs the body of class Settings
ImportConfig ==
    /\ pc = "import_config"
    /\ IF SettingsRaises(env)
       THEN /\ pc' = "failed"
            /\ cls' = cls
       ELSE /\ pc' = "get_settings"
            /\ cls' = <<Settings(env)>>
    /\ UNCHANGED <<env, cache, nextId, settings, routes, cors, requests, calls,
                   envWrites, bootEnv>>

\* One call of get_settings(): returns the instance, filling the cache
Returned(id) == [id |-> id, fields |-> cls[1], writes |-> envWrites]

\* settings = get_settings()
LoadSettings ==
    /\ pc = "get_settings"
    /\ LET id == get_settings(cache, nextId) IN
        /\ settings' = id
        /\ cache' = id
        /\ nextId' = IF id > nextId THEN id ELSE nextId
        /\ calls' = Append(calls, Returned(id))
    /\ pc' = "debug"
    /\ UNCHANGED <<env, cls, routes, cors, requests, envWrites, bootEnv>>

\* if settings.DEBUG: import debugpy; debugpy.listen(...), which may raise
DebugAttach ==
    /\ pc = "debug"
    /\ IF Field("DEBUG")
       THEN \E attached \in BOOLEAN : pc' = IF attached THEN "create_app" ELSE "failed"
       ELSE pc' = "create_app"
    /\ UNCHANGED <<env, cls, cache, nextId, settings, routes, cors, requests, calls,
                   envWrites, bootEnv>>

\* app = FastAPI(..., docs_url=f"{API_PREFIX}/docs", redoc_url=f"{API_PREFIX}/redoc")
CreateApp ==
    /\ pc = "create_app"
    /\ IF StartsWithSlash(Field("API_PREFIX") \o sDocs)
       THEN /\ routes' = DocRoutes(Field("API_PREFIX"))
            /\ pc' = "add_middleware"
       ELSE /\ routes' = routes
            /\ pc' = "failed"
    /\ UNCHANGED <<env, cls, cache, nextId, settings, cors, requests, calls,
                   envWrites, bootEnv>>

\* app.add_middleware(CORSMiddleware, allow_origins=settings.CORS_ORIGINS, ...)
AddMiddleware ==
    /\ pc = "add_middleware"
    /\ cors' = <<Field("CORS_ORIGINS")>>
    /\ pc' = "include_health"
    /\ UNCHANGED <<env, cls, cache, nextId, settings, routes, requests, calls,
                   envWrites, bootEnv>>

\* app.include_router(health.router, prefix=settings.API_PREFIX, ...)
IncludeHealth ==
    /\ pc = "include_health"
    /\ IF PrefixAccepted(Field("API_PREFIX"))
       THEN /\ routes' = routes \o HealthRoutes(Field("API_PREFIX"))
            /\ pc' = "include_hello"
       ELSE /\ routes' = routes
            /\ pc' = "failed"
    /\ UNCHANGED <<env, cls, cache, nextId, settings, cors, requests, calls,
                   envWrites, bootEnv>>

\* app.include_router(hello.router, prefix=settings.API_PREFIX, ...)
IncludeHello ==
    /\ pc = "include_hello"
    /\ IF PrefixAccepted(Field("API_PREFIX"))
       THEN /\ routes' = routes \o HelloRoutes(Field("API_PREFIX"))
            /\ pc' = "root_route"
       ELSE /\ routes' = routes
            /\ pc' = "failed"
    /\ UNCHANGED <<env, cls, cache, nextId, settings, cors, requests, calls,
                   envWrites, bootEnv>>

\* @app.get("/") async def root()
RegisterRoot ==
    /\ pc = "root_route"
    /\ routes' = routes \o RootRoutes
    /\ pc' = "run"
    /\ UNCHANGED <<env, cls, cache, nextId, settings, cors, requests, calls,
                   envWrites, bootEnv>>

\* uvicorn.run(app, host=settings.HOST, port=settings.PORT, ...)
Run ==
    /\ pc = "run"
    /\ pc' = "serving"
    /\ UNCHANGED <<env, cls, cache, nextId, settings, routes, cors, requests, calls,
                   envWrites, bootEnv>>

\* The process receives its termination signal
Terminate ==
    /\ pc = "serving"
    /\ pc' = "terminated"
    /\ UNCHANGED <<env, cls, cache, nextId, settings, routes, cors, requests, calls,
                   envWrites, bootEnv>>

----------------------------------------------------------------------------
(* Requests *)

Names == {sAl, sTag}

\* GET paths clients send: the documented ones under the configured prefix,
\* their trailing-slash variants, and paths under no prefix
PathsUnder(prefix) ==
    {prefix \o sHealthPath, prefix \o sHelloPath, prefix \o sHelloPath \o sSlash,
     prefix \o sHelloPath \o sSlash \o sAl \o sSlash}
    \cup {prefix \o sHelloPath \o sSlash \o n : n \in Names}

RequestPaths ==
    IF cls = <<>> THEN {}
    ELSE {sSlash, sNope, sHealthPath}
         \cup PathsUnder(Field("API_PREFIX"))

\* The router matches an incoming GET and the request is in flight
Receive(path) ==
    /\ Accepting(pc)
    /\ Len(requests) < MaxRequests
    /\ LET d == Dispatch(routes, path) IN
        requests' = Append(requests,
            [path |-> path, st |-> "inflight", endpoint |-> d.endpoint,
             name |-> d.name, location |-> d.location,
             resp |-> [code |-> 0, location |-> <<>>, body |-> [empty |-> TRUE]]])
    /\ UNCHANGED <<env, pc, cls, cache, nextId, settings, routes, cors, calls,
                   envWrites, bootEnv>>

\* The endpoint of an in-flight request runs and the response is sent
Respond(i) ==
    /\ pc = "serving"
    /\ requests[i].st = "inflight"
    /\ requests' = [requests EXCEPT ![i].st = "done", ![i].resp = Response(requests[i])]
    /\ UNCHANGED <<env, pc, cls, cache, nextId, settings, routes, cors, calls,
                   envWrites, bootEnv>>

\* The client closes the connection of an in-flight request
Abort(i) ==
    /\ pc = "serving"
    /\ requests[i].st = "inflight"
    /\ requests' = [requests EXCEPT ![i].st = "aborted"]
    /\ UNCHANGED <<env, pc, cls, cache, nextId, settings, routes, cors, calls,
                   envWrites, bootEnv>>

----------------------------------------------------------------------------
(* The environment of get_settings: other callers, writes to os.environ *)

\* Any code of the process calls get_settings() once config.py is imported
CallGetSettings ==
    /\ cls # <<>>
    /\ pc # "get_settings"
    /\ Len(calls) < MaxCalls + 1
    /\ LET id == get_settings(cache, nextId) IN
        /\ cache' = id
        /\ nextId' = IF id > nextId THEN id ELSE nextId
        /\ calls' = Append(calls, Returned(id))
    /\ UNCHANGED <<env, pc, cls, settings, routes, cors, requests, envWrites, bootEnv>>

EnvWriteValues ==
    [ENVIRONMENT |-> {<<>>, <<sProduction>>},
     DEBUG |-> {<<sTrue>>},
     LOG_LEVEL |-> {},
     API_PREFIX |-> {<<sV1>>},
     API_VERSION |-> {<<sVersion20>>},
     CORS_ORIGINS |-> {<<sOriginsAB>>},
     HOST |-> {},
     PORT |-> {<<sAbc>>, <<s9999>>}]

\* os.environ[name] = value, or del os.environ[name], once config.py has been
\* imported (a write before the import is a different initial environment)
SetEnv(name, value) ==
    /\ cls # <<>>
    /\ envWrites < MaxEnvWrites
    /\ env[name] # value
    /\ env' = [env EXCEPT ![name] = value]
    /\ envWrites' = envWrites + 1
    /\ UNCHANGED <<pc, cls, cache, nextId, settings, routes, cors, requests, calls, bootEnv>>

----------------------------------------------------------------------------
(* Specifications *)

Unset == [n \in EnvNames |-> <<>>]

InitState(e) ==
    /\ env = e
    /\ bootEnv = e
    /\ pc = "import_config"
    /\ cls = <<>>
    /\ cache = 0
    /\ nextId = 0
    /\ settings = 0
    /\ routes = <<>>
    /\ cors = <<>>
    /\ requests = <<>>
    /\ calls = <<>>
    /\ envWrites = 0

\* The server under requests
Init ==
    \E named \in {<< <<>>, <<>> >>, << <<sProduction>>, <<>> >>, << <<>>, <<sVersion20>> >>},
       prefix \in {<<>>, <<<<>>>>, <<sV1NoSlash>>, <<sV1Trailing>>},
       port \in {<<>>, <<sAbc>>, <<s80a>>, <<<<>>>>} :
        InitState([Unset EXCEPT !["ENVIRONMENT"] = named[1],
                                !["API_VERSION"] = named[2],
                                !["API_PREFIX"] = prefix,
                                !["PORT"] = port])

Startup ==
    \/ ImportConfig
    \/ LoadSettings
    \/ DebugAttach
    \/ CreateApp
    \/ AddMiddleware
    \/ IncludeHealth
    \/ IncludeHello
    \/ RegisterRoot
    \/ Run

Next ==
    \/ Startup
    \/ Terminate
    \/ \E path \in RequestPaths : Receive(path)
    \/ \E i \in 1..Len(requests) : Respond(i)
    \/ \E i \in 1..Len(requests) : Abort(i)

Spec == Init /\ [][Next]_vars

\* Configuration loading under every environment, with further callers of
\* get_settings and writes to os.environ
InitConfig ==
    \E environment \in {<<>>, <<sProduction>>},
       debug \in {<<>>, <<sTrueCap>>, <<sFalse>>},
       prefix \in {<<>>, <<sV1>>},
       origins \in {<<>>, <<sOriginsAB>>, <<sOriginsGap>>, <<<<>>>>},
       port \in {<<>>, <<s9999>>, <<sAbc>>, <<s80a>>, <<sPadded80>>, <<sPlus8_0>>, <<<<>>>>} :
        InitState([Unset EXCEPT !["ENVIRONMENT"] = environment,
                                !["DEBUG"] = debug,
                                !["API_PREFIX"] = prefix,
                                !["CORS_ORIGINS"] = origins,
                                !["PORT"] = port])

NextConfig ==
    \/ Startup
    \/ CallGetSettings
    \/ \E name \in EnvNames : \E value \in EnvWriteValues[name] : SetEnv(name, value)

SpecConfig == InitConfig /\ [][NextConfig]_vars


----------------------------------------------------------------------------
(* Properties *)

\* The values the process was started with, read off the initial environment
BootPrefix == IF bootEnv["API_PREFIX"] = <<>> THEN sApi ELSE bootEnv["API_PREFIX"][1]
BootVersion == IF bootEnv["API_VERSION"] = <<>> THEN sVersion100 ELSE bootEnv["API_VERSION"][1]
BootEnvironment ==
    IF bootEnv["ENVIRONMENT"] = <<>> THEN sDevelopment ELSE bootEnv["ENVIRONMENT"][1]
BootOrigins == IF bootEnv["CORS_ORIGINS"] = <<>> THEN sStar ELSE bootEnv["CORS_ORIGINS"][1]

Req == 1..Len(requests)
Done(i) == requests[i].st = "done"
Ok200(body) == [code |-> 200, location |-> <<>>, body |-> body]
NotFound404 == [code |-> 404, location |-> <<>>, body |-> [detail |-> sNotFound]]
Redirect307(to) == [code |-> 307, location |-> to, body |-> [empty |-> TRUE]]

\* C1: every GET <prefix>/hello/{name} with a non-empty name segment is
\* dispatched to get_hello_name and answered 200 with the message "Hello, "
\* followed by the name as sent, followed by "!".
C1_GreetingByName ==
    \A i \in Req : \A n \in Names :
        requests[i].path = BootPrefix \o sHelloPath \o sSlash \o n =>
            /\ requests[i].endpoint = "get_hello_name"
            /\ Done(i) => requests[i].resp = Ok200([message |-> sHelloComma \o n \o sBang])

C1_Witness ==
    \E i \in Req :
        /\ requests[i].path = BootPrefix \o sHelloPath \o sSlash \o sTag
        /\ Done(i)
        /\ requests[i].resp.body = [message |-> <<"H","e","l","l","o",","," ","<","b",">","!">>]

\* C2: GET <prefix>/health is answered 200 with {status: "healthy",
\* message: "OK"}, whatever requests came before it.
C2_HealthConstant ==
    \A i \in Req :
        requests[i].path = BootPrefix \o sHealthPath =>
            /\ requests[i].endpoint = "get_health"
            /\ Done(i) => requests[i].resp = Ok200([status |-> sHealthy, message |-> sOK])

C2_Witness ==
    /\ Len(requests) >= 2
    /\ Done(1) /\ requests[1].resp.code # 200
    /\ Done(2) /\ requests[2].path = BootPrefix \o sHealthPath
    /\ requests[2].resp.code = 200

\* C3: GET / is answered 200 with message "OK <rocket>", version = API_VERSION
\* and environment = ENVIRONMENT of the process environment at start, or the
\* defaults "1.0.0" and "development" when unset; with ENVIRONMENT=production
\* and API_VERSION unset the body is {OK <rocket>, 1.0.0, production}.
C3_RootReportsConfiguration ==
    \A i \in Req :
        requests[i].path = sSlash =>
            /\ requests[i].endpoint = "root"
            /\ Done(i) =>
                /\ requests[i].resp =
                     Ok200([message |-> sOKRocket, version |-> BootVersion,
                            environment |-> BootEnvironment])
                /\ (bootEnv["ENVIRONMENT"] = <<sProduction>> /\ bootEnv["API_VERSION"] = <<>>) =>
                     requests[i].resp.body =
                        [message |-> sOKRocket, version |-> sVersion100,
                         environment |-> sProduction]

C3_Witness ==
    \E i \in Req :
        /\ requests[i].path = sSlash /\ Done(i)
        /\ bootEnv["ENVIRONMENT"] = <<sProduction>> /\ bootEnv["API_VERSION"] = <<>>
        /\ requests[i].resp.body.environment = sProduction

\* C4: every call of get_settings() returns the same instance with the same
\* field values, and only one instance is ever constructed, also when
\* os.environ was written between the calls.
C4_SettingsMemoized ==
    /\ nextId <= 1
    /\ \A i, j \in 1..Len(calls) :
        /\ calls[i].id = calls[j].id
        /\ calls[i].fields = calls[j].fields

C4_Witness ==
    \E i, j \in 1..Len(calls) :
        /\ i < j
        /\ calls[i].writes < calls[j].writes
        /\ env # bootEnv

\* The paths the application registers, stated for the requests of the model
IsRegistered(path) ==
    \/ path = sSlash
    \/ path = BootPrefix \o sHealthPath
    \/ path = BootPrefix \o sHelloPath
    \/ \E n \in Names : path = BootPrefix \o sHelloPath \o sSlash \o n
    \/ path \in {sOpenapi, sOauth2, BootPrefix \o sDocs, BootPrefix \o sRedoc}

\* The handlers are reachable only at their own paths
HandlersOnlyAtTheirPaths ==
    \A i \in Req :
        /\ requests[i].endpoint = "root" => requests[i].path = sSlash
        /\ requests[i].endpoint = "get_health" => requests[i].path = BootPrefix \o sHealthPath
        /\ requests[i].endpoint = "get_hello" => requests[i].path = BootPrefix \o sHelloPath
        /\ requests[i].endpoint = "get_hello_name" =>
              \E n \in Names : requests[i].path = BootPrefix \o sHelloPath \o sSlash \o n

\* C5 as claimed: handlers are reachable only at their paths, and a GET that
\* matches no registered route, <prefix>/hello/ included, runs no handler and
\* is answered 404 with the not-found body.
C5_UnmatchedIs404 ==
    /\ HandlersOnlyAtTheirPaths
    /\ \A i \in Req :
        ~IsRegistered(requests[i].path) =>
            /\ requests[i].endpoint \notin Handlers
            /\ Done(i) => requests[i].resp = NotFound404

\* A path with trailing slashes whose stripped form is registered
StrippedIsRegistered(path) ==
    /\ path # sSlash
    /\ path[Len(path)] = "/"
    /\ \E k \in 1..(Len(path) - 1) :
        /\ IsRegistered(SubSeq(path, 1, k))
        /\ path[k] # "/"
        /\ \A m \in (k + 1)..Len(path) : path[m] = "/"

StrippedPath(path) ==
    SubSeq(path, 1, CHOOSE k \in 1..(Len(path) - 1) :
                        /\ path[k] # "/"
                        /\ \A m \in (k + 1)..Len(path) : path[m] = "/")

\* C5: handlers are reachable only at their paths; a GET that matches no
\* registered route runs no handler; it is answered 307 with the path
\* stripped of its trailing slashes as location when that path is registered
\* (so <prefix>/hello/ is redirected to <prefix>/hello), and otherwise 404
\* with the not-found body.
C5_UnmatchedIsRedirectOr404 ==
    /\ HandlersOnlyAtTheirPaths
    /\ \A i \in Req :
        ~IsRegistered(requests[i].path) =>
            /\ requests[i].endpoint \notin Handlers
            /\ Done(i) =>
                IF StrippedIsRegistered(requests[i].path)
                THEN requests[i].resp = Redirect307(StrippedPath(requests[i].path))
                ELSE requests[i].resp = NotFound404

C5_Witness ==
    \E i, j \in Req :
        /\ requests[i].path = BootPrefix \o sHelloPath \o sSlash
        /\ Done(i)
        /\ requests[i].resp = Redirect307(BootPrefix \o sHelloPath)
        /\ requests[j].path = sNope
        /\ Done(j)
        /\ requests[j].resp.code = 404

\* C6: GET <prefix>/hello is dispatched to get_hello, never to
\* get_hello_name, and answered 200 with "Hello, World!", whatever preceded.
C6_StaticGreeting ==
    \A i \in Req :
        requests[i].path = BootPrefix \o sHelloPath =>
            /\ requests[i].endpoint = "get_hello"
            /\ Done(i) => requests[i].resp = Ok200([message |-> sHelloWorld])

C6_Witness ==
    /\ Len(requests) >= 2
    /\ requests[1].endpoint = "get_hello_name" /\ Done(1)
    /\ requests[2].path = BootPrefix \o sHelloPath /\ Done(2)
    /\ requests[2].resp.code = 200

\* PORT values that are not integer literals
MalformedPorts == {sAbc, s80a, <<>>}

\* C7: with a malformed PORT the process fails while loading its
\* configuration: the settings are never bound, the process never serves and
\* no request is accepted or answered; PORT is not replaced by a default.
C7_MalformedPortIsFatal ==
    (bootEnv["PORT"] # <<>> /\ bootEnv["PORT"][1] \in MalformedPorts) =>
        /\ pc \in {"import_config", "failed"}
        /\ cls = <<>>
        /\ settings = 0
        /\ requests = <<>>

C7_Witness == pc = "failed" /\ bootEnv["PORT"] = <<s80a>>

RECURSIVE Join(_, _)
Join(pieces, sep) ==
    IF Len(pieces) = 1 THEN pieces[1]
    ELSE pieces[1] \o <<sep>> \o Join(Tail(pieces), sep)

\* C8: the origins handed to the CORS middleware are the comma-separated
\* pieces of CORS_ORIGINS in their order (joined by commas they give the
\* variable back, and no piece holds a comma); https://a.com,https://b.com
\* gives those two origins, and an unset variable gives ["*"].
C8_CorsOriginsSplit ==
    cors # <<>> =>
        /\ Len(cors[1]) >= 1
        /\ Join(cors[1], ",") = BootOrigins
        /\ \A k \in 1..Len(cors[1]) : \A m \in 1..Len(cors[1][k]) : cors[1][k][m] # ","
        /\ bootEnv["CORS_ORIGINS"] = <<sOriginsAB>> => cors[1] = <<sOriginA, sOriginB>>
        /\ bootEnv["CORS_ORIGINS"] = <<>> => cors[1] = <<sStar>>

C8_Witness == cors = << <<sOriginA, sOriginB>> >>

AllHandlersRegistered ==
    \A h \in Handlers : \E k \in 1..Len(routes) : routes[k].endpoint = h

\* C9: a request is dispatched only while serving, with the settings bound
\* and every handler registered; serving is entered only from the end of
\* start-up; and once serving the process only keeps serving or terminates,
\* with routes and configuration unchanged.
C9_Lifecycle ==
    [][ /\ requests' # requests =>
            /\ pc = "serving"
            /\ settings # 0 /\ cls # <<>>
            /\ AllHandlersRegistered
        /\ (pc' = "serving" /\ pc # "serving") => pc = "run"
        /\ pc = "serving" =>
            /\ pc' \in {"serving", "terminated"}
            /\ routes' = routes /\ cls' = cls /\ settings' = settings /\ cors' = cors
        /\ pc \in {"failed", "terminated"} => pc' = pc ]_vars

C9_Witness == pc = "terminated" /\ requests # <<>> /\ AllHandlersRegistered

============================================================================
